---------------------------- MODULE Spec2Model ----------------------------
(***************************************************************************)
(* A model of filter_jsonl.py: the recursive schema projection             *)
(* (filter_by_schema), the SQLite sink with its batch and its FTS5         *)
(* triggers (init_sqlite_db, SqliteOutput), the JSONL sink (JsonlOutput),  *)
(* the LZFSE pass (compress_sqlite_db) and the driver (main).              *)
(***************************************************************************)
EXTENDS Integers, Sequences, FiniteSets, TLC

(***************************************************************************)
(* JSON values as json.loads builds them: dict, list, str, None.           *)
(***************************************************************************)
None == [t |-> "null"]
Str(s) == [t |-> "str", s |-> s]
\* The empty string: the leaf the schema normalisation leaves ("string" -> "").
EmptyStr == Str(<<>>)
Dict(m) == [t |-> "dict", m |-> m]
List(e) == [t |-> "list", e |-> e]
IsDict(v) == v.t = "dict"
IsList(v) == v.t = "list"

\* Bounds of the enumerated JSON values.
Keys == {"a", "b"}
MaxArrayLen == 2

\* Every dict over a subset of Keys with values in V.
DictsOver(V) == UNION {{Dict(m) : m \in [D -> V]} : D \in SUBSET Keys}
\* Every list of at most MaxArrayLen elements of V.
ListsOver(V) == UNION {{List(e) : e \in [1..n -> V]} : n \in 0..MaxArrayLen}
\* A schema's list is read through schema[0] alone: the empty list and the
\* one-element lists are its two cases.
SchemaListsOver(V) == {List(<<>>)} \cup {List(<<s>>) : s \in V}

Json0 == {EmptyStr}
Json1 == Json0 \cup DictsOver(Json0) \cup ListsOver(Json0)
Json2 == Json0 \cup DictsOver(Json1) \cup ListsOver(Json1)
Schema0 == {EmptyStr}
Schema1 == Schema0 \cup DictsOver(Schema0) \cup SchemaListsOver(Schema0)
Schema2 == Schema0 \cup DictsOver(Schema1) \cup SchemaListsOver(Schema1)
\* parse_schema_structure returns the parsed document, or None when it does
\* not parse.
Schemas == Schema2 \cup {None}

(***************************************************************************)
(* filter_by_schema                                                        *)
(***************************************************************************)
RECURSIVE filter_by_schema_keep(_, _)
\* The projection with the key test of the dict branch lost: every key of
\* obj is copied, filtered only where the schema knows the key.
filter_by_schema_keep(obj, schema) ==
    IF schema = None THEN obj
    ELSE IF IsDict(schema) /\ IsDict(obj)
    THEN Dict([key \in DOMAIN obj.m |->
                 IF key \in DOMAIN schema.m
                 THEN filter_by_schema_keep(obj.m[key], schema.m[key])
                 ELSE obj.m[key]])
    ELSE IF IsList(schema) /\ Len(schema.e) > 0
    THEN IF IsList(obj)
         THEN List([i \in 1..Len(obj.e) |->
                      filter_by_schema_keep(obj.e[i], schema.e[1])])
         ELSE obj
    ELSE obj

RECURSIVE filter_by_schema_rec(_, _)
filter_by_schema_rec(obj, schema) ==
    IF schema = None THEN obj
    ELSE IF IsDict(schema) /\ IsDict(obj)
    THEN Dict([key \in DOMAIN schema.m \cap DOMAIN obj.m |->
                 filter_by_schema_rec(obj.m[key], schema.m[key])])
    ELSE IF IsList(schema) /\ Len(schema.e) > 0
    THEN IF IsList(obj)
         THEN List([i \in 1..Len(obj.e) |->
                      filter_by_schema_rec(obj.e[i], schema.e[1])])
         ELSE obj
    ELSE obj

filter_by_schema(obj, schema) == filter_by_schema_rec(obj, schema)

(***************************************************************************)
(* init_sqlite_db: the entries table, its two FTS5 tables and the triggers *)
(***************************************************************************)
\* unicode61 (the default tokenizer): the maximal runs of non-separator
\* characters of the text.
Tokens61(s) ==
    {SubSeq(s, i, j) : <<i, j>> \in
        {ij \in (1..Len(s)) \X (1..Len(s)) :
            /\ ij[1] <= ij[2]
            /\ \A k \in ij[1]..ij[2] : s[k] # " "
            /\ (ij[1] = 1 \/ s[ij[1] - 1] = " ")
            /\ (ij[2] = Len(s) \/ s[ij[2] + 1] = " ")}}
\* trigram: every run of three consecutive characters.
Trigrams(s) == {SubSeq(s, i, i + 2) : i \in 1..(Len(s) - 2)}

\* An FTS5 table with external content: the rowids it holds a document for,
\* and its inverted index of (token, rowid) pairs.
EmptyFts == [docs |-> {}, idx |-> {}]
\* INSERT INTO fts(rowid, word) VALUES (rowid, word)
FtsInsert(f, rowid, toks) ==
    [docs |-> f.docs \cup {rowid}, idx |-> f.idx \cup {<<t, rowid>> : t \in toks}]
\* INSERT INTO fts(fts, rowid, word) VALUES ('delete', rowid, word): removes
\* the index entries of the tokens of the word it is given.
FtsDelete(f, rowid, toks) ==
    [docs |-> f.docs \ {rowid}, idx |-> f.idx \ {<<t, rowid>> : t \in toks}]

\* The database init_sqlite_db leaves: the empty tables, AUTOINCREMENT at 0.
EmptyDb == [entries |-> {}, entries_fts |-> EmptyFts,
            entries_fts_trigram |-> EmptyFts, seq |-> 0]

\* CREATE TRIGGER entries_ai AFTER INSERT
entries_ai(d, new) ==
    [d EXCEPT !.entries_fts = FtsInsert(@, new.id, Tokens61(new.word.s)),
              !.entries_fts_trigram = FtsInsert(@, new.id, Trigrams(new.word.s))]

\* CREATE TRIGGER entries_ad AFTER DELETE
entries_ad(d, old) ==
    [d EXCEPT !.entries_fts = FtsDelete(@, old.id, Tokens61(old.word.s)),
              !.entries_fts_trigram = FtsDelete(@, old.id, Trigrams(old.word.s))]

\* The update trigger with the tombstone built from the new word instead of
\* the old one.
entries_au_newword(d, old, new) ==
    [d EXCEPT !.entries_fts =
                  FtsInsert(FtsDelete(@, old.id, Tokens61(new.word.s)),
                            new.id, Tokens61(new.word.s)),
              !.entries_fts_trigram =
                  FtsInsert(FtsDelete(@, old.id, Trigrams(new.word.s)),
                            new.id, Trigrams(new.word.s))]

\* CREATE TRIGGER entries_au AFTER UPDATE
entries_au(d, old, new) ==
    [d EXCEPT !.entries_fts =
                  FtsInsert(FtsDelete(@, old.id, Tokens61(old.word.s)),
                            new.id, Tokens61(new.word.s)),
              !.entries_fts_trigram =
                  FtsInsert(FtsDelete(@, old.id, Trigrams(old.word.s)),
                            new.id, Trigrams(new.word.s))]

\* word TEXT NOT NULL, pos TEXT: a row binds when word is a text value and
\* pos is a text value or NULL.
Insertable(e) == e.word.t = "str" /\ e.pos.t \in {"str", "null"}

\* INSERT INTO entries (word, pos, data) VALUES (?, ?, ?): the next
\* AUTOINCREMENT id, then the insert trigger.
sql_insert(d, e) ==
    LET new == [id |-> d.seq + 1, word |-> e.word, pos |-> e.pos, data |-> e.data]
    IN  entries_ai([d EXCEPT !.entries = @ \cup {new}, !.seq = new.id], new)

\* DELETE FROM entries WHERE id = ?
sql_delete(d, old) ==
    entries_ad([d EXCEPT !.entries = @ \ {old}], old)

\* UPDATE entries SET word = ? WHERE id = ?
sql_update(d, old, word) ==
    LET new == [old EXCEPT !.word = word]
    IN  entries_au([d EXCEPT !.entries = (@ \ {old}) \cup {new}], old, new)

RECURSIVE executemany(_, _)
\* cursor.executemany: one INSERT per entry of the batch, in order, each
\* taking the next AUTOINCREMENT id.
executemany(d, rows) ==
    IF rows = <<>> THEN d
    ELSE LET d1 == sql_insert(d, Head(rows))
         IN  IF d1.seq = d.seq + 1 THEN executemany(d1, Tail(rows)) ELSE d1

(***************************************************************************)
(* SqliteOutput.  st is the object with the database it writes to:         *)
(*   batch      self.batch                                                 *)
(*   conn_open  whether self.conn is still open                            *)
(*   in_txn     whether self.conn holds an open (uncommitted) transaction  *)
(*   db         the committed contents of the database file                *)
(*   raised     whether the call in progress has raised                    *)
(***************************************************************************)
batch_size == 100

\* SqliteOutput.__init__: init_sqlite_db recreates the database.
SqliteOutput_init ==
    [batch |-> <<>>, conn_open |-> TRUE, in_txn |-> FALSE, db |-> EmptyDb,
     raised |-> FALSE]

\* dict.get(key, default)
get(obj, key, default) == IF key \in DOMAIN obj.m THEN obj.m[key] ELSE default

\* The tuple write() appends; json.dumps is one-to-one on the values here,
\* so data is the object itself.
entry(filtered_obj) ==
    [word |-> get(filtered_obj, "word", EmptyStr),
     pos |-> get(filtered_obj, "pos", EmptyStr),
     data |-> filtered_obj]

\* SqliteOutput.flush.  executemany raises on a closed connection
\* (ProgrammingError) and on a row that does not bind (IntegrityError); the
\* rows it inserted before the failure stay in the open transaction, which
\* is never committed: commit() is not reached, and a later flush meets the
\* same row again.
flush(st) ==
    IF st.batch # <<>>
    THEN IF ~st.conn_open
         THEN [st EXCEPT !.raised = TRUE]
         ELSE IF \E i \in 1..Len(st.batch) : ~Insertable(st.batch[i])
         THEN [st EXCEPT !.raised = TRUE, !.in_txn = TRUE]
         ELSE [st EXCEPT !.db = executemany(@, st.batch), !.in_txn = FALSE,
                         !.batch = <<>>]
    ELSE st

\* write() flushing only once the batch is over its capacity.
write_over(st, filtered_obj) ==
    LET st1 == [st EXCEPT !.batch = Append(@, entry(filtered_obj))]
    IN  IF Len(st1.batch) > batch_size THEN flush(st1) ELSE st1

\* SqliteOutput.write
write(st, filtered_obj) ==
    LET st1 == [st EXCEPT !.batch = Append(@, entry(filtered_obj))]
    IN  IF Len(st1.batch) >= batch_size THEN flush(st1) ELSE st1

\* close() without its flush.
close_noflush(st) == [st EXCEPT !.conn_open = FALSE, !.in_txn = FALSE]

\* SqliteOutput.close: conn.close() is reached only when flush() returns; it
\* rolls back what the connection had not committed.
close(st) ==
    LET st1 == flush(st)
    IN  IF st1.raised THEN st1
        ELSE [st1 EXCEPT !.conn_open = FALSE, !.in_txn = FALSE]

\* A call starts with no exception in flight.
Call(st) == [st EXCEPT !.raised = FALSE]

(***************************************************************************)
(* The records fed to the sink.                                            *)
(***************************************************************************)
W(s) == Str(s)
Words == {W(<<"a", "b">>), W(<<"a", "b", "c">>),
          W(<<"a", "b", " ", "c", "a", "b", "c">>), EmptyStr}
\* Four projected records that insert: a word and a pos, a word alone (pos
\* defaults), no word (word defaults to ''), a word shorter than a trigram
\* with a null pos.
GoodFeed ==
    << Dict([word |-> W(<<"a", "b", "c">>), pos |-> W(<<"n">>)]),
       Dict([word |-> W(<<"a", "b", " ", "c", "a", "b", "c">>)]),
       Dict([pos |-> W(<<"v">>)]),
       Dict([word |-> W(<<"a", "b">>), pos |-> None]) >>
\* A projected record whose word is null: it violates NOT NULL.
NullWord == Dict([word |-> None, pos |-> W(<<"n">>)])
FeedRecords == {GoodFeed[i] : i \in 1..Len(GoodFeed)} \cup {NullWord}

\* Bounds: the write() calls of a run, and of a run with SQL statements.
MaxWrites == 101
MaxDbWrites == 3

VARIABLES sink, writes, last, null_at

svars == <<sink, writes, last, null_at>>

\* The i-th record written: the good records in turn, the null-word record
\* at position null_at (0: never).
Feed(i) == IF i = null_at THEN NullWord ELSE GoodFeed[(i % Len(GoodFeed)) + 1]

\* The call that ran last and, for a write(), what it found: whether the
\* connection was closed, the length of the batch and the committed rows.
Before(op) ==
    IF op = "write"
    THEN [op |-> op, closed |-> ~sink.conn_open, len |-> Len(sink.batch),
          rows |-> Cardinality(sink.db.entries)]
    ELSE [op |-> op, closed |-> FALSE, len |-> 0, rows |-> 0]

InitSink ==
    /\ sink = SqliteOutput_init
    /\ writes = 0
    /\ last = [op |-> "init", closed |-> FALSE, len |-> 0, rows |-> 0]
    /\ null_at \in {0, 100, 101}

SqliteOutput_write(max) ==
    /\ writes < max
    /\ sink' = write(Call(sink), Feed(writes + 1))
    /\ writes' = writes + 1
    /\ last' = Before("write")
    /\ UNCHANGED null_at

SqliteOutput_flush ==
    /\ sink' = flush(Call(sink))
    /\ last' = Before("flush")
    /\ UNCHANGED <<writes, null_at>>

SqliteOutput_close ==
    /\ sink' = close(Call(sink))
    /\ last' = Before("close")
    /\ UNCHANGED <<writes, null_at>>

\* Statements another connection runs on the database file; they wait while
\* the sink's connection holds a write transaction.
InitDb ==
    /\ sink = SqliteOutput_init
    /\ writes = 0
    /\ last = [op |-> "init", closed |-> FALSE, len |-> 0, rows |-> 0]
    /\ null_at \in {0, 2}

SqlDelete ==
    /\ ~sink.in_txn
    /\ \E old \in sink.db.entries : sink' = [sink EXCEPT !.db = sql_delete(@, old)]
    /\ last' = Before("delete")
    /\ UNCHANGED <<writes, null_at>>

SqlUpdate ==
    /\ ~sink.in_txn
    /\ \E old \in sink.db.entries : \E word \in Words :
          sink' = [sink EXCEPT !.db = sql_update(@, old, word)]
    /\ last' = Before("update")
    /\ UNCHANGED <<writes, null_at>>

VARIABLES p_obj, p_schema, p_result, p_pc

pvars == <<p_obj, p_schema, p_result, p_pc>>

InitProj ==
    /\ p_obj \in Json2
    /\ p_schema \in Schemas
    /\ p_result = None
    /\ p_pc = "call"

Project ==
    /\ p_pc = "call"
    /\ p_result' = filter_by_schema(p_obj, p_schema)
    /\ p_pc' = "done"
    /\ UNCHANGED <<p_obj, p_schema>>

(***************************************************************************)
(* main, JsonlOutput and compress_sqlite_db                                *)
(***************************************************************************)
\* Bounds of the driver's runs: the lines of the input, the largest limit n.
MaxLines == 2
MaxLimit == 2

Fr == W(<<"f", "r">>)
\* A line json.loads cannot decode.
Malformed == [t |-> "malformed"]
\* The lines of an input file: a French entry, a French entry whose word is
\* null, an entry of another language, an entry with no lang_code, and a
\* malformed line.
FrLine == Dict([lang_code |-> Fr, word |-> W(<<"a", "b", "c">>), etym |-> W(<<"x">>)])
FrNullLine == Dict([lang_code |-> Fr, word |-> None])
EnLine == Dict([lang_code |-> W(<<"e", "n">>), word |-> W(<<"a", "b">>)])
NoLangLine == Dict([word |-> W(<<"a", "b", "c">>)])
Lines == {FrLine, FrNullLine, EnLine, NoLangLine, Malformed}
Inputs == UNION {[1..k -> Lines] : k \in 0..MaxLines}

\* sys.argv[...] when the argument is not given.
NoArg == "<None>"
\* n: not given, or the integer parsed.
NoLimit == [given |-> FALSE, v |-> 0]
Limit(k) == [given |-> TRUE, v |-> k]

VARIABLES n, use_sqlite, compress_db, output_file, schema, input,
          pc, exc, lines_read, lines_output, written,
          jsonl, stdout_open, file_open,
          db_file, artifact, c_failed, close_result, invoked

dvars == <<n, use_sqlite, compress_db, output_file, schema, input,
           pc, exc, lines_read, lines_output, written,
           jsonl, stdout_open, file_open,
           db_file, artifact, c_failed, close_result, invoked>>
cfgvars == <<n, use_sqlite, compress_db, output_file, schema, input>>
loopvars == <<lines_read, lines_output, written>>
jvars == <<jsonl, stdout_open, file_open>>
cvars == <<db_file, artifact, c_failed, invoked>>

\* Python's truth value of the output_file argument: None and '' are false.
Truthy(f) == f # NoArg /\ f # ""

\* JsonlOutput.__init__
JsonlOutput_init(f) ==
    [output |-> IF Truthy(f) THEN "file" ELSE "stdout",
     should_close |-> f # NoArg]

\* JsonlOutput.close: self.output.close() when should_close.
JsonlOutput_close ==
    IF jsonl.should_close
    THEN IF jsonl.output = "stdout"
         THEN stdout_open' = FALSE /\ UNCHANGED file_open
         ELSE file_open' = FALSE /\ UNCHANGED stdout_open
    ELSE UNCHANGED <<stdout_open, file_open>>

\* The test of line 301 with the comparison against another tag: only
\* entries tagged 'en' are skipped.
skip_record_en(obj) == get(obj, "lang_code", None) = W(<<"e", "n">>)

\* obj.get('lang_code') != 'fr'
skip_record(obj) == get(obj, "lang_code", None) # Fr

InitDriver ==
    /\ n \in {NoLimit} \cup {Limit(k) : k \in 0..MaxLimit}
    /\ use_sqlite \in BOOLEAN
    /\ compress_db \in (IF use_sqlite THEN BOOLEAN ELSE {FALSE})
    /\ output_file \in (IF use_sqlite THEN {NoArg} ELSE {NoArg, "", "out.jsonl"})
    /\ schema \in {None, Dict([word |-> EmptyStr, pos |-> EmptyStr])}
    /\ input \in Inputs
    /\ pc = "setup" /\ exc = FALSE
    /\ lines_read = 0 /\ lines_output = 0 /\ written = <<>>
    /\ jsonl = [output |-> "none", should_close |-> FALSE]
    /\ stdout_open = TRUE /\ file_open = FALSE
    /\ db_file = "absent" /\ artifact \in {"absent", "stale"}
    /\ c_failed = "none" /\ close_result = "none" /\ invoked = FALSE

\* Lines 266-286: the output handler is built, the schema parsed.
main_setup ==
    /\ pc = "setup"
    /\ IF use_sqlite
       THEN /\ sink' = SqliteOutput_init
            /\ db_file' = "present"
            /\ UNCHANGED jvars
       ELSE /\ jsonl' = JsonlOutput_init(output_file)
            /\ file_open' = Truthy(output_file)
            /\ UNCHANGED <<sink, db_file, stdout_open>>
    /\ pc' = "loop"
    /\ UNCHANGED <<cfgvars, loopvars, exc, artifact, c_failed, close_result,
                   invoked, writes, last, null_at>>

\* output_handler.write(filtered_obj), then lines_output += 1 and the
\* cutoff test; an exception of write() leaves the loop.
main_write(obj) ==
    LET filtered_obj == filter_by_schema(obj, schema)
        st == IF use_sqlite THEN write(Call(sink), filtered_obj) ELSE sink
    IN  /\ sink' = st
        /\ writes' = IF use_sqlite THEN writes + 1 ELSE writes
        /\ last' = IF use_sqlite THEN Before("write") ELSE last
        /\ written' = Append(written, lines_read + 1)
        /\ IF use_sqlite /\ st.raised
           THEN /\ exc' = TRUE /\ pc' = "finally"
                /\ UNCHANGED lines_output
           ELSE /\ lines_output' = lines_output + 1
                /\ pc' = IF n.given /\ lines_output + 1 >= n.v
                         THEN "finally" ELSE "loop"
                /\ UNCHANGED exc

\* One iteration of the loop of lines 294-313.
main_loop ==
    /\ pc = "loop"
    /\ lines_read < Len(input)
    /\ lines_read' = lines_read + 1
    /\ LET obj == input[lines_read + 1]
       IN  IF obj = Malformed \/ ~IsDict(obj)
           THEN /\ exc' = TRUE /\ pc' = "finally"
                /\ UNCHANGED <<lines_output, written, sink, writes, last>>
           ELSE IF skip_record(obj)
           THEN UNCHANGED <<pc, exc, lines_output, written, sink, writes, last>>
           ELSE main_write(obj)
    /\ UNCHANGED <<cfgvars, jvars, cvars, close_result, null_at>>

\* The input is exhausted: the summary of line 315.
main_end_of_input ==
    /\ pc = "loop"
    /\ lines_read = Len(input)
    /\ pc' = "finally"
    /\ UNCHANGED <<cfgvars, loopvars, exc, jvars, cvars, close_result, svars>>

\* The finally block with the compression moved before the close.
main_finally_compress_first ==
    /\ pc = "finally"
    /\ IF use_sqlite /\ compress_db
       THEN /\ invoked' = TRUE /\ pc' = "c_read"
            /\ UNCHANGED <<sink, last, close_result, stdout_open, file_open>>
       ELSE /\ JsonlOutput_close
            /\ sink' = IF use_sqlite THEN close(Call(sink)) ELSE sink
            /\ last' = IF use_sqlite THEN Before("close") ELSE last
            /\ close_result' = IF use_sqlite /\ sink'.raised
                               THEN "raised" ELSE "returned"
            /\ pc' = "exit"
            /\ UNCHANGED invoked
    /\ UNCHANGED <<cfgvars, loopvars, exc, jsonl, db_file, artifact, c_failed,
                   writes, null_at>>

\* The finally block of lines 317-322: output_handler.close(), and
\* compress_sqlite_db once close() has returned.
main_finally ==
    /\ pc = "finally"
    /\ IF use_sqlite
       THEN /\ sink' = close(Call(sink))
            /\ last' = Before("close")
            /\ UNCHANGED <<stdout_open, file_open>>
       ELSE /\ JsonlOutput_close
            /\ UNCHANGED <<sink, last>>
    /\ close_result' = IF use_sqlite /\ sink'.raised THEN "raised" ELSE "returned"
    /\ IF use_sqlite /\ sink'.raised
       THEN pc' = "exit" /\ exc' = TRUE /\ UNCHANGED invoked
       ELSE IF use_sqlite /\ compress_db
       THEN pc' = "c_read" /\ invoked' = TRUE /\ UNCHANGED exc
       ELSE pc' = "exit" /\ UNCHANGED <<invoked, exc>>
    /\ UNCHANGED <<cfgvars, loopvars, jsonl, db_file, artifact, c_failed,
                   writes, null_at>>

\* A step of compress_sqlite_db that raised: the exception leaves main.
compress_raise(step) ==
    /\ c_failed' = step
    /\ exc' = TRUE
    /\ pc' = "exit"

\* Lines 83-85: the database file is read whole and compressed.
compress_read ==
    /\ pc = "c_read"
    /\ \E ok \in BOOLEAN :
          IF ok /\ db_file = "present"
          THEN pc' = "c_write" /\ UNCHANGED <<c_failed, exc>>
          ELSE compress_raise("read")
    /\ UNCHANGED <<cfgvars, loopvars, jvars, db_file, artifact, invoked,
                   close_result, svars>>

\* The write of the artifact with the removal of the original moved before
\* it.
compress_write_after_remove ==
    /\ pc = "c_write"
    /\ db_file' = "absent"
    /\ \E res \in {"complete", "partial", artifact} :
          /\ artifact' = res
          /\ IF res = "complete"
             THEN pc' = "c_report" /\ UNCHANGED <<c_failed, exc>>
             ELSE compress_raise("write")
    /\ UNCHANGED <<cfgvars, loopvars, jvars, invoked, close_result, svars>>

\* Lines 88-89: the artifact is opened for writing and written.  A failure
\* leaves it as it was (the open failed) or partly written.
compress_write ==
    /\ pc = "c_write"
    /\ \E res \in {"complete", "partial", artifact} :
          /\ artifact' = res
          /\ IF res = "complete"
             THEN pc' = "c_report" /\ UNCHANGED <<c_failed, exc>>
             ELSE compress_raise("write")
    /\ UNCHANGED <<cfgvars, loopvars, jvars, db_file, invoked, close_result,
                   svars>>

\* Lines 92-96: the sizes are read and the reduction reported.
compress_report ==
    /\ pc = "c_report"
    /\ \E ok \in BOOLEAN :
          IF ok
          THEN pc' = "c_remove" /\ UNCHANGED <<c_failed, exc>>
          ELSE compress_raise("report")
    /\ UNCHANGED <<cfgvars, loopvars, jvars, db_file, artifact, invoked,
                   close_result, svars>>

\* Lines 99-102: os.remove(db_path), then the function returns.
compress_remove ==
    /\ pc = "c_remove"
    /\ \E ok \in BOOLEAN :
          IF ok
          THEN db_file' = "absent" /\ pc' = "exit" /\ UNCHANGED <<c_failed, exc>>
          ELSE compress_raise("remove") /\ UNCHANGED db_file
    /\ UNCHANGED <<cfgvars, loopvars, jvars, artifact, invoked, close_result,
                   svars>>

vars == <<pvars, svars, dvars>>

(***************************************************************************)
(* The specifications.  Each starts the parts it does not run in a fixed   *)
(* state and leaves them unchanged.                                        *)
(***************************************************************************)
IdleProj == p_obj = None /\ p_schema = None /\ p_result = None /\ p_pc = "idle"
IdleSink ==
    /\ sink = SqliteOutput_init /\ writes = 0 /\ null_at = 0
    /\ last = [op |-> "init", closed |-> FALSE, len |-> 0, rows |-> 0]
IdleDriver ==
    /\ n = NoLimit /\ use_sqlite = FALSE /\ compress_db = FALSE
    /\ output_file = NoArg /\ schema = None /\ input = <<>>
    /\ pc = "idle" /\ exc = FALSE
    /\ lines_read = 0 /\ lines_output = 0 /\ written = <<>>
    /\ jsonl = [output |-> "none", should_close |-> FALSE]
    /\ stdout_open = TRUE /\ file_open = FALSE
    /\ db_file = "absent" /\ artifact = "absent"
    /\ c_failed = "none" /\ close_result = "none" /\ invoked = FALSE

\* filter_by_schema on every record and schema of the bounded sets.
ProjInit == InitProj /\ IdleSink /\ IdleDriver
NextProj == Project /\ UNCHANGED <<svars, dvars>>
SpecProj == ProjInit /\ [][NextProj]_vars

\* The SQLite sink under write(), flush() and close() calls in any order.
Init == InitSink /\ IdleProj /\ IdleDriver
Next ==
    \/ SqliteOutput_write(MaxWrites) /\ UNCHANGED <<pvars, dvars>>
    \/ SqliteOutput_flush /\ UNCHANGED <<pvars, dvars>>
    \/ SqliteOutput_close /\ UNCHANGED <<pvars, dvars>>
Spec == Init /\ [][Next]_vars

\* The sink and statements of another connection on the same database.
DbInit == InitDb /\ IdleProj /\ IdleDriver
NextDb ==
    \/ SqliteOutput_write(MaxDbWrites) /\ UNCHANGED <<pvars, dvars>>
    \/ SqliteOutput_flush /\ UNCHANGED <<pvars, dvars>>
    \/ SqliteOutput_close /\ UNCHANGED <<pvars, dvars>>
    \/ SqlDelete /\ UNCHANGED <<pvars, dvars>>
    \/ SqlUpdate /\ UNCHANGED <<pvars, dvars>>
SpecDb == DbInit /\ [][NextDb]_vars

\* A run of main.
DriverInit == InitDriver /\ IdleSink /\ IdleProj
NextDriver ==
    \/ main_setup /\ UNCHANGED pvars
    \/ main_loop /\ UNCHANGED pvars
    \/ main_end_of_input /\ UNCHANGED pvars
    \/ main_finally /\ UNCHANGED pvars
    \/ compress_read /\ UNCHANGED pvars
    \/ compress_write /\ UNCHANGED pvars
    \/ compress_report /\ UNCHANGED pvars
    \/ compress_remove /\ UNCHANGED pvars
SpecDriver == DriverInit /\ [][NextDriver]_vars

(***************************************************************************)
(* Properties of the SQLite sink                                           *)
(***************************************************************************)
Rows == Cardinality(sink.db.entries)

\* C1: once close() has returned, the committed rows of the entries table
\* number the write() calls made, and the batch is empty.
C1_RowsEqualWrites ==
    (last.op = "close" /\ ~sink.raised) =>
        (Rows = writes /\ sink.batch = <<>>)

\* C1 witness: 101 writes (one batch flushed by write(), one entry flushed by
\* close()) and a close that returned.
C1_Witness ==
    /\ last.op = "close" /\ ~sink.raised
    /\ writes = batch_size + 1 /\ Rows = batch_size + 1

\* The (token, rowid) pairs a tokenizer yields for the rows of the table.
IndexOf(rows, Tok(_)) == UNION {{<<t, r.id>> : t \in Tok(r.word.s)} : r \in rows}

\* C2: both full-text tables correspond one to one to the (id, word) pairs
\* of the entries table: a document for each live id and no other, indexed
\* under the tokens of that row's word and no other.
C2_IndexConsistent ==
    LET rows == sink.db.entries
        ids == {r.id : r \in rows}
    IN  /\ \A r1, r2 \in rows : r1.id = r2.id => r1 = r2
        /\ sink.db.entries_fts.docs = ids
        /\ sink.db.entries_fts.idx = IndexOf(rows, Tokens61)
        /\ sink.db.entries_fts_trigram.docs = ids
        /\ sink.db.entries_fts_trigram.idx = IndexOf(rows, Trigrams)

\* C2 witness: the sink closed after three writes, one row since deleted
\* and one updated to another word that has trigrams.
C2_Witness ==
    /\ ~sink.conn_open /\ writes = 3 /\ Rows = 2
    /\ \E r \in sink.db.entries :
          /\ r.word # entry(r.data).word
          /\ Trigrams(r.word.s) # {}

\* C7 as stated: a write() after close() is rejected and leaves the batch
\* and the committed store as they were.
C7_WriteAfterCloseRejected ==
    (last.op = "write" /\ last.closed) =>
        (sink.raised /\ Len(sink.batch) = last.len /\ Rows = last.rows)

\* C9: after a call that returned, the batch holds at most batch_size - 1
\* entries; a write() that found batch_size - 1 entries and returned has
\* committed batch_size rows and left the batch empty.
C9_BatchBound ==
    /\ ~sink.raised => Len(sink.batch) <= batch_size - 1
    /\ (last.op = "write" /\ last.len = batch_size - 1 /\ ~sink.raised) =>
           (sink.batch = <<>> /\ Rows = last.rows + batch_size)

\* C9 witness: the write() that filled the batch has returned.
C9_Witness ==
    /\ last.op = "write" /\ last.len = batch_size - 1 /\ ~sink.raised
    /\ Rows = batch_size

(***************************************************************************)
(* Properties of the projection                                            *)
(***************************************************************************)
RECURSIVE NoExtraKeys(_, _)
\* v holds no key, at any path, that s lacks at that path (a path through
\* a list follows the schema list's first element).
NoExtraKeys(v, s) ==
    IF IsDict(v)
    THEN IF IsDict(s)
         THEN /\ DOMAIN v.m \subseteq DOMAIN s.m
              /\ \A k \in DOMAIN v.m : NoExtraKeys(v.m[k], s.m[k])
         ELSE DOMAIN v.m = {}
    ELSE IF IsList(v)
    THEN IF IsList(s) /\ Len(s.e) > 0
         THEN \A i \in 1..Len(v.e) : NoExtraKeys(v.e[i], s.e[1])
         ELSE \A i \in 1..Len(v.e) : NoExtraKeys(v.e[i], None)
    ELSE TRUE

RECURSIVE KeysFrom(_, _)
\* Every key of v exists in r at the same path.
KeysFrom(v, r) ==
    IF IsDict(v)
    THEN /\ IsDict(r)
         /\ DOMAIN v.m \subseteq DOMAIN r.m
         /\ \A k \in DOMAIN v.m : KeysFrom(v.m[k], r.m[k])
    ELSE IF IsList(v)
    THEN /\ IsList(r)
         /\ Len(v.e) <= Len(r.e)
         /\ \A i \in 1..Len(v.e) : KeysFrom(v.e[i], r.e[i])
    ELSE TRUE

RECURSIVE RestrictedWhereShapesMatch(_, _, _)
\* Where a dict schema faces a dict and a non-empty list schema faces a
\* list, v keeps only keys of the schema; anywhere else v is r unchanged.
RestrictedWhereShapesMatch(v, r, s) ==
    IF IsDict(s) /\ IsDict(r)
    THEN /\ IsDict(v)
         /\ DOMAIN v.m \subseteq DOMAIN s.m
         /\ DOMAIN v.m \subseteq DOMAIN r.m
         /\ \A k \in DOMAIN v.m :
               RestrictedWhereShapesMatch(v.m[k], r.m[k], s.m[k])
    ELSE IF IsList(s) /\ Len(s.e) > 0 /\ IsList(r)
    THEN /\ IsList(v)
         /\ Len(v.e) = Len(r.e)
         /\ \A i \in 1..Len(v.e) :
               RestrictedWhereShapesMatch(v.e[i], r.e[i], s.e[1])
    ELSE v = r

\* C4 as stated, for a schema that parsed: the projection holds no key
\* absent from the schema at its path, and every key of it exists in the
\* record at the same path.
C4_StructuralRestriction ==
    (p_pc = "done" /\ p_schema # None) =>
        (NoExtraKeys(p_result, p_schema) /\ KeysFrom(p_result, p_obj))

\* C4 amended: every key of the projection exists in the record at the same
\* path; it holds no key absent from the schema wherever the schema and the
\* record have matching shapes along the path, and is the record's value
\* unchanged below a leaf, a None or empty-list schema, or a shape mismatch.
C4_RestrictionWhereShapesMatch ==
    p_pc = "done" =>
        (RestrictedWhereShapesMatch(p_result, p_obj, p_schema)
            /\ KeysFrom(p_result, p_obj))

\* C4 witness: a projection that dropped a key of the record and also kept,
\* below a leaf or a mismatch, a key the schema lacks.
C4_Witness ==
    /\ p_pc = "done" /\ p_schema # None
    /\ p_result # p_obj
    /\ ~NoExtraKeys(p_result, p_schema)

(***************************************************************************)
(* Properties of the driver and of the compression pass                    *)
(***************************************************************************)
\* The lines whose lang_code is 'fr'.
IsFrLine(line) == line \in {FrLine, FrNullLine}
\* The positions of the 'fr' lines among the first k lines of the input.
Matching(k) == {i \in 1..k : IsFrLine(input[i])}
AfterLoop == pc \notin {"idle", "setup", "loop"}

\* C3 as stated: with a limit n and at least n matching records, exactly n
\* records are written and the last line read is the one that gave the
\* n-th write (no line at all for n = 0).
C3_CutoffExact ==
    (AfterLoop /\ ~exc /\ n.given /\ Cardinality(Matching(Len(input))) >= n.v) =>
        /\ lines_output = n.v
        /\ Cardinality(Matching(lines_read)) = n.v
        /\ (lines_read = 0 \/ IsFrLine(input[lines_read]))

\* C5: the original database is gone only once the artifact is completely
\* written and no step before the removal failed; a failure of the read,
\* the write or the report leaves the original in place.
C5_OriginalKept ==
    /\ (use_sqlite /\ pc # "setup" /\ db_file = "absent") =>
           (artifact = "complete" /\ c_failed = "none")
    /\ c_failed \in {"read", "write", "report"} => db_file = "present"

\* C5 witness: the write of the artifact failed half way, and the database
\* with its committed row is still there.
C5_Witness ==
    /\ c_failed = "write" /\ artifact = "partial"
    /\ db_file = "present" /\ Rows >= 1

\* C6: the records handed to write() are exactly the 'fr' lines read so
\* far, and lines_output never counts more than the records handed over.
C6_OnlyFrWritten ==
    /\ \A k \in 1..Len(written) : written[k] \in Matching(lines_read)
    /\ Len(written) = Cardinality(Matching(lines_read))
    /\ lines_output <= Len(written)

\* C6 witness: a line of another tag (or none) was read and skipped, then
\* an 'fr' line written.
C6_Witness ==
    /\ lines_read = 2 /\ lines_output = 1 /\ written = <<2>>
    /\ input[1] \in {EnLine, NoLangLine}

\* C8 as stated: JsonlOutput.close() closes the file the constructor
\* opened, if it opened one, and never standard output.
C8_ClosesOnlyOwnFile ==
    (~use_sqlite /\ close_result = "returned") =>
        (stdout_open /\ ~file_open)

\* C10: compress_sqlite_db is invoked only once close() has returned, the
\* batch flushed and the connection closed; when close() raises it is not
\* invoked and the database file stays.
C10_CompressAfterClose ==
    /\ invoked => (close_result = "returned" /\ sink.batch = <<>>
                      /\ ~sink.conn_open)
    /\ close_result = "raised" => (~invoked /\ db_file = "present")

\* C10 witness: a decode error ended the loop after a write, close()
\* committed the row, and the compression was invoked.
C10_Witness ==
    /\ invoked /\ exc /\ c_failed = "none"
    /\ lines_read >= 1 /\ input[lines_read] = Malformed
    /\ Rows >= 1 /\ writes = Rows

=============================================================================
